---- MODULE Spec2Model ----
(***************************************************************************)
(* A model of kyoh86/git-prompt: the ahead/behind counter countCommit, the *)
(* base-branch matcher Git.BaseBranch, the layered user.email resolution   *)
(* and the Stat-based main program with its Git query helpers.             *)
(***************************************************************************)
EXTENDS Integers, Sequences, FiniteSets, TLC

(***************************************************************************)
(* Bounds of the model.                                                    *)
(***************************************************************************)
\* commits of a history without merge commits
MaxCommits == 5
\* commits of a history that may hold merge commits
MaxMergeCommits == 4

\* lines of a remote branch listing
MaxLines == 2
\* characters of a remote branch's leaf name
MaxLeafLen == 2
\* characters of the current branch's name
MaxBranchLen == 3

\* user.email entries in one configuration file
MaxOptions == 2

\* "no commit": a nil *object.Commit, a nil *plumbing.Hash
None == 0

Max(a, b) == IF a >= b THEN a ELSE b

(***************************************************************************)
(* Commit graphs.  A graph is a tuple g, g[c] the ordered parent hashes of *)
(* commit c.  Parents carry smaller numbers than their children, so every  *)
(* graph is acyclic.                                                       *)
(***************************************************************************)
Commits == 1..MaxCommits

SingleParent(c) == {<<>>} \cup {<<a>> : a \in 1..(c - 1)}

MergeParents(c) ==
    {<<a, b>> : a \in 1..(c - 1), b \in 1..(c - 1)} \ {<<a, a>> : a \in 1..(c - 1)}

RECURSIVE LinearGraphs(_)
LinearGraphs(n) ==
    IF n = 0 THEN {<<>>}
    ELSE {Append(g, ps) : g \in LinearGraphs(n - 1), ps \in SingleParent(n)}

RECURSIVE MergeGraphs(_)
MergeGraphs(n) ==
    IF n = 0 THEN {<<>>}
    ELSE IF n > MaxMergeCommits
         THEN {Append(g, <<>>) : g \in MergeGraphs(n - 1)}
         ELSE {Append(g, ps) : g \in MergeGraphs(n - 1),
                               ps \in SingleParent(n) \cup MergeParents(n)}

Graphs == LinearGraphs(MaxCommits) \cup MergeGraphs(MaxCommits)

Range(s) == {s[i] : i \in 1..Len(s)}

(***************************************************************************)
(* object.NewCommitPreorderIter of go-git: the start commit first, then a  *)
(* stack of parent iterators; each commit is emitted once.                 *)
(***************************************************************************)
NewCommitPreorderIter(c) == [start |-> c, seen |-> {}, stack |-> <<>>]

\* filteredParentIter: the parents not seen when the iterator is made
FilteredParents(g, c, seen) == SelectSeq(g[c], LAMBDA h : h \notin seen)

RECURSIVE IterNext(_, _)
IterNext(g, it) ==
    LET Visit(c, it1) ==
            IF c \in it1.seen
            THEN IterNext(g, it1)
            ELSE LET seen1 == it1.seen \cup {c}
                 IN  [c  |-> c,
                      it |-> [it1 EXCEPT
                                !.seen = seen1,
                                !.stack = IF Len(g[c]) > 0
                                          THEN Append(it1.stack, FilteredParents(g, c, seen1))
                                          ELSE it1.stack]]
    IN  IF it.start # None
        THEN Visit(it.start, [it EXCEPT !.start = None])
        ELSE IF it.stack = <<>>
             THEN [c |-> None, it |-> it]
             ELSE LET cur == Len(it.stack)
                      top == it.stack[cur]
                  IN  IF top = <<>>
                      THEN IterNext(g, [it EXCEPT !.stack = SubSeq(it.stack, 1, cur - 1)])
                      ELSE Visit(Head(top), [it EXCEPT !.stack[cur] = Tail(top)])

\* an object read can fail only where the iterator loads a commit from the store
CanFail(it) == it.start = None /\ it.stack # <<>>

(***************************************************************************)
(* State of one countCommit(rep, toCommit, fromCommit) call.               *)
(***************************************************************************)
VARIABLES
    parents,        \* the repository's commit graph
    toCommit,       \* argument
    fromCommit,     \* argument
    toMap,          \* hashes visited from toCommit
    fromMap,        \* hashes visited from fromCommit
    toArr,          \* hashes emitted by toIter before the boundary, in order
    toIter,
    fromIter,
    commonCommit,
    remain,
    round,          \* iterations of the for loop started so far
    pc,             \* "to", "from", "return", "done", or "idle"
    result,         \* the returned int
    err             \* the returned error is non-nil

ccVars == <<parents, toCommit, fromCommit, toMap, fromMap, toArr, toIter,
            fromIter, commonCommit, remain, round, pc, result, err>>


CountInit ==
    /\ parents \in Graphs
    /\ toCommit \in Commits
    /\ fromCommit \in Commits
    /\ toMap = {toCommit}
    /\ fromMap = {fromCommit}
    /\ toArr = <<>>
    /\ toIter = NewCommitPreorderIter(toCommit)
    /\ fromIter = NewCommitPreorderIter(fromCommit)
    /\ commonCommit = None
    /\ remain = FALSE
    /\ round = 1
    /\ pc = "to"
    /\ result = 0
    /\ err = FALSE

CountIdle ==
    /\ parents = <<>>
    /\ toCommit = None
    /\ fromCommit = None
    /\ toMap = {}
    /\ fromMap = {}
    /\ toArr = <<>>
    /\ toIter = NewCommitPreorderIter(None)
    /\ fromIter = NewCommitPreorderIter(None)
    /\ commonCommit = None
    /\ remain = FALSE
    /\ round = 0
    /\ pc = "idle"
    /\ result = 0
    /\ err = FALSE

\* return 0, err
ReturnErr ==
    /\ result' = 0
    /\ err' = TRUE
    /\ pc' = "done"

\* mutant: the hash is put in front of the ones emitted before
PrependToArr(arr, h) == <<h>> \o arr

\* toArr = append(toArr, toNext.Hash)
AppendToArr(arr, h) == Append(arr, h)

\* the first half of a loop iteration: remain := false, pull from toIter
ToPull ==
    /\ pc = "to"
    /\ \/ /\ CanFail(toIter)
          /\ ReturnErr
          /\ UNCHANGED <<parents, toCommit, fromCommit, toMap, fromMap, toArr,
                         toIter, fromIter, commonCommit, remain, round>>
       \/ LET r == IterNext(parents, toIter)
          IN  /\ toIter' = r.it
              /\ IF r.c # None
                 THEN /\ remain' = TRUE
                      /\ toMap' = toMap \cup {r.c}
                      /\ IF r.c \in fromMap
                         THEN /\ commonCommit' = r.c
                              /\ pc' = "return"
                              /\ toArr' = toArr
                         ELSE /\ toArr' = AppendToArr(toArr, r.c)
                              /\ pc' = "from"
                              /\ commonCommit' = commonCommit
                 ELSE /\ remain' = FALSE
                      /\ pc' = "from"
                      /\ UNCHANGED <<toMap, toArr, commonCommit>>
              /\ UNCHANGED <<parents, toCommit, fromCommit, fromMap, fromIter,
                             round, result, err>>

\* mutant: the loop stops as soon as one of the walkers is exhausted
LoopGoesOnBoth(toGot, fromGot) == toGot /\ fromGot

\* whether the loop goes on at the end of an iteration: if !remain { break };
\* remain is true when the to-side or the from-side pull returned a commit
LoopGoesOn(toGot, fromGot) == toGot \/ fromGot

\* the second half of a loop iteration: pull from fromIter, then the remain test
FromPull ==
    /\ pc = "from"
    /\ \/ /\ CanFail(fromIter)
          /\ ReturnErr
          /\ UNCHANGED <<parents, toCommit, fromCommit, toMap, fromMap, toArr,
                         toIter, fromIter, commonCommit, remain, round>>
       \/ LET r == IterNext(parents, fromIter)
          IN  /\ fromIter' = r.it
              /\ remain' = (remain \/ r.c # None)
              /\ IF r.c # None
                 THEN /\ fromMap' = fromMap \cup {r.c}
                      /\ IF r.c \in toMap
                         THEN /\ commonCommit' = r.c
                              /\ pc' = "return"
                              /\ round' = round
                         ELSE /\ commonCommit' = commonCommit
                              /\ pc' = "to"
                              /\ round' = round + 1
                 ELSE /\ fromMap' = fromMap
                      /\ commonCommit' = commonCommit
                      /\ IF LoopGoesOn(remain, FALSE)
                         THEN pc' = "to" /\ round' = round + 1
                         ELSE pc' = "return" /\ round' = round
              /\ UNCHANGED <<parents, toCommit, fromCommit, toMap, toArr, toIter,
                             result, err>>

\* mutant: the position counted from 1
IndexInOneBased(arr, h) ==
    IF \E i \in 1..Len(arr) : arr[i] = h
    THEN CHOOSE i \in 1..Len(arr) : arr[i] = h
    ELSE Len(arr)

\* the position of h in arr, counted from 0, or Len(arr) when h is not in arr
IndexIn(arr, h) ==
    IF \E i \in 1..Len(arr) : arr[i] = h
    THEN (CHOOSE i \in 1..Len(arr) : arr[i] = h /\ \A j \in 1..(i - 1) : arr[j] # h) - 1
    ELSE Len(arr)

\* mutant: the boundary commit is not looked up in toArr
CountResultNoLookup(arr, common) == Len(arr)

\* the value countCommit returns once the loop has ended
CountResult(arr, common) ==
    IF common = None THEN Len(arr) ELSE IndexIn(arr, common)

Return ==
    /\ pc = "return"
    /\ result' = CountResult(toArr, commonCommit)
    /\ err' = FALSE
    /\ pc' = "done"
    /\ UNCHANGED <<parents, toCommit, fromCommit, toMap, fromMap, toArr, toIter,
                   fromIter, commonCommit, remain, round>>

(***************************************************************************)
(* Strings are sequences of one-character strings; command output is a     *)
(* sequence of bytes in which "\n" ends a line.                            *)
(***************************************************************************)
RECURSIVE StringsUpTo(_, _)
\* the strings over alphabet of at most n characters
StringsUpTo(alphabet, n) ==
    IF n = 0 THEN {<<>>}
    ELSE LET shorter == StringsUpTo(alphabet, n - 1)
         IN  shorter \cup {Append(w, ch) : w \in shorter, ch \in alphabet}

RECURSIVE TuplesUpTo(_, _)
\* the sequences of at most n elements of set
TuplesUpTo(set, n) ==
    IF n = 0 THEN {<<>>}
    ELSE LET shorter == TuplesUpTo(set, n - 1)
         IN  shorter \cup {Append(w, x) : w \in shorter, x \in set}

RECURSIVE Unlines(_)
\* the bytes git writes for a sequence of lines: each line, then "\n"
Unlines(lines) ==
    IF lines = <<>> THEN <<>>
    ELSE Head(lines) \o <<"\n">> \o Unlines(Tail(lines))

\* strings.HasPrefix
HasPrefix(str, prefix) ==
    Len(prefix) <= Len(str) /\ SubSeq(str, 1, Len(prefix)) = prefix

\* the position of the first ch in str, or 0
IndexOf(str, ch) ==
    IF \E i \in 1..Len(str) : str[i] = ch
    THEN CHOOSE i \in 1..Len(str) : str[i] = ch /\ \A j \in 1..(i - 1) : str[j] # ch
    ELSE 0

\* bufio's dropCR
DropCR(line) ==
    IF Len(line) > 0 /\ line[Len(line)] = "\r"
    THEN SubSeq(line, 1, Len(line) - 1)
    ELSE line

RECURSIVE ScanLines(_)
\* the tokens of a bufio.Scanner (ScanLines) over buf: scanner / scanFunc
ScanLines(buf) ==
    IF buf = <<>> THEN <<>>
    ELSE LET i == IndexOf(buf, "\n")
         IN  IF i = 0
             THEN <<DropCR(buf)>>
             ELSE <<DropCR(SubSeq(buf, 1, i - 1))>> \o ScanLines(SubSeq(buf, i + 1, Len(buf)))

(***************************************************************************)
(* Git.BaseBranch.                                                         *)
(***************************************************************************)
OriginMaster == <<"o", "r", "i", "g", "i", "n", "/", "m", "a", "s", "t", "e", "r">>

\* strings.SplitN(line, "/", 2) has two fields
HasTwoFields(line) == IndexOf(line, "/") # 0

\* remoteFields[1]: the text after the first "/"
RemoteLeaf(line) == SubSeq(line, IndexOf(line, "/") + 1, Len(line))

\* mutant: an entry as long as the best match so far is skipped too
SkipsShorterOrEqual(maxMatched, remoteLength) == maxMatched >= remoteLength

\* if maxMatched > remoteLength { continue }
SkipsShorter(maxMatched, remoteLength) == maxMatched > remoteLength

\* mutant: only the hyphen rule
MatchesHyphenOnly(branch, leaf) == HasPrefix(branch, leaf \o <<"-">>)

\* the two HasPrefix tests of the scan
Matches(branch, leaf) ==
    \/ HasPrefix(branch, leaf \o <<"/">>)
    \/ HasPrefix(branch, leaf \o <<"-">>)

\* one iteration of the scan over the listing
ScanLine(st, branch, line) ==
    IF ~HasTwoFields(line) THEN st
    ELSE LET leaf == RemoteLeaf(line)
         IN  IF SkipsShorter(st.maxMatched, Len(leaf)) THEN st
             ELSE IF Matches(branch, leaf)
                  THEN [maxMatched |-> Len(leaf), baseBranch |-> line]
                  ELSE st

RECURSIVE ScanListing(_, _, _)
ScanListing(st, branch, lines) ==
    IF lines = <<>> THEN st
    ELSE ScanListing(ScanLine(st, branch, Head(lines)), branch, Tail(lines))

\* the name BaseBranch returns for the output of a successful `branch -r`
BaseBranchOf(branch, output) ==
    LET st == ScanListing([maxMatched |-> 0, baseBranch |-> <<>>], branch,
                          ScanLines(output))
    IN  IF st.baseBranch = <<>> THEN OriginMaster ELSE st.baseBranch

\* inputs of the model: remote names, leaf names, branch names
RemoteNames == {<<"o">>, <<"u">>}

LeafNames == StringsUpTo({"a"}, MaxLeafLen)

ListingLines == {<<>>, <<"o">>} \cup {r \o <<"/">> \o l : r \in RemoteNames, l \in LeafNames}

BranchNames == StringsUpTo({"a", "-", "/"}, MaxBranchLen)

VARIABLES
    bbBranch,       \* BaseBranch's argument
    bbListing,      \* the repository's remote branches, as `git branch -r` lists them
    bbOutput,       \* what `git branch -r` writes in this repository
    bbCallErr,      \* the error g.Call("branch", "-r") returned is non-nil
    bbResult,       \* the returned string
    bbErr,          \* the returned error is non-nil
    bbPc            \* "call", "done", or "idle"

bbVars == <<bbBranch, bbListing, bbOutput, bbCallErr, bbResult, bbErr, bbPc>>

BaseInit ==
    /\ bbBranch \in BranchNames
    /\ bbListing \in TuplesUpTo(ListingLines, MaxLines)
    /\ bbOutput = Unlines(bbListing)
    /\ bbCallErr = FALSE
    /\ bbResult = <<>>
    /\ bbErr = FALSE
    /\ bbPc = "call"

BaseIdle ==
    /\ bbBranch = <<>>
    /\ bbListing = <<>>
    /\ bbOutput = <<>>
    /\ bbCallErr = FALSE
    /\ bbResult = <<>>
    /\ bbErr = FALSE
    /\ bbPc = "idle"

\* BaseBranch(branch) when g.Call("branch", "-r") succeeds
BaseBranchReturns ==
    /\ bbPc = "call"
    /\ bbCallErr' = FALSE
    /\ bbResult' = BaseBranchOf(bbBranch, bbOutput)
    /\ bbErr' = FALSE
    /\ bbPc' = "done"
    /\ UNCHANGED <<bbBranch, bbListing, bbOutput>>

\* BaseBranch(branch) when g.Call("branch", "-r") fails: return "", err
BaseBranchFails ==
    /\ bbPc = "call"
    /\ bbCallErr' = TRUE
    /\ bbResult' = <<>>
    /\ bbErr' = TRUE
    /\ bbPc' = "done"
    /\ UNCHANGED <<bbBranch, bbListing, bbOutput>>


(***************************************************************************)
(* Properties of Git.BaseBranch.                                           *)
(***************************************************************************)
\* str begins with prefix
StartsWith(str, prefix) == \E k \in 0..Len(str) : SubSeq(str, 1, k) = prefix

\* a listing entry of the form remote/leaf
IsEntry(line) == \E i \in 1..Len(line) : line[i] = "/"

\* the text after the first "/" of an entry
EntryLeaf(line) ==
    LET first == CHOOSE i \in 1..Len(line) :
                     line[i] = "/" /\ \A j \in 1..(i - 1) : line[j] # "/"
    IN  [k \in 1..(Len(line) - first) |-> line[first + k]]

\* the matching rule as the claim C4 states it
MatchesOrEquals(branch, leaf) ==
    \/ branch = leaf
    \/ StartsWith(branch, leaf \o <<"/">>)
    \/ StartsWith(branch, leaf \o <<"-">>)

\* the matching rule without the equality case
MatchesByPrefix(branch, leaf) ==
    \/ StartsWith(branch, leaf \o <<"/">>)
    \/ StartsWith(branch, leaf \o <<"-">>)

BaseReturned == bbPc = "done" /\ ~bbErr

\* C4 as stated: an entry remote/leaf is a matching candidate (it is selected
\* when it is the only entry of the listing) if and only if branch = leaf, or
\* branch starts with leaf + "/", or branch starts with leaf + "-".
C4_MatchIncludesEquality ==
    (BaseReturned /\ Len(bbListing) = 1 /\ IsEntry(bbListing[1])) =>
        (bbResult = bbListing[1]
            <=> MatchesOrEquals(bbBranch, EntryLeaf(bbListing[1])))

\* C4 amended: an entry remote/leaf is a matching candidate if and only if
\* branch starts with leaf + "/" or with leaf + "-"; a branch equal to the
\* leaf does not match, and every name other than the fallback that
\* BaseBranch returns is an entry of the listing that matches by this rule.
C4_MatchByPrefixOnly ==
    BaseReturned =>
        /\ (Len(bbListing) = 1 /\ IsEntry(bbListing[1])) =>
               (bbResult = bbListing[1]
                   <=> MatchesByPrefix(bbBranch, EntryLeaf(bbListing[1])))
        /\ bbResult # OriginMaster =>
               \E i \in 1..Len(bbListing) :
                   /\ bbListing[i] = bbResult
                   /\ IsEntry(bbListing[i])
                   /\ MatchesByPrefix(bbBranch, EntryLeaf(bbListing[i]))

\* C4 witness: the branch is named as the only remote entry's leaf, and the
\* fallback is returned
C4_Witness ==
    /\ BaseReturned
    /\ bbBranch = <<"a">>
    /\ bbListing = << <<"o", "/", "a">> >>
    /\ bbResult = OriginMaster

\* the positions of the listing's matching entries
MatchingEntries ==
    {i \in 1..Len(bbListing) :
        IsEntry(bbListing[i]) /\ MatchesByPrefix(bbBranch, EntryLeaf(bbListing[i]))}

\* the last of the matching entries whose leaf is longest
LastLongestMatch ==
    CHOOSE i \in MatchingEntries :
        \A j \in MatchingEntries :
            \/ Len(EntryLeaf(bbListing[j])) < Len(EntryLeaf(bbListing[i]))
            \/ Len(EntryLeaf(bbListing[j])) = Len(EntryLeaf(bbListing[i])) /\ j <= i

ConfPathsLocalBeforeHome == <<"system", "xdg", "local", "home">>

\* confPaths: /etc/gitconfig, $XDG_CONFIG_HOME/git/config, $HOME/.gitconfig,
\* <root>/.git/config
ConfPaths == <<"system", "xdg", "home", "local">>

EmailValues == {"a@x", "b@x"}

\* a configuration file: absent, not openable, not parsable, or parsable with
\* its user.email entries in file order
ConfigFiles ==
    {[state |-> "absent", emails |-> <<>>],
     [state |-> "unreadable", emails |-> <<>>],
     [state |-> "malformed", emails |-> <<>>]}
    \cup {[state |-> "ok", emails |-> es] : es \in TuplesUpTo(EmailValues, MaxOptions)}

\* nothing printed
NoOutput == "<nothing printed>"

\* os.IsNotExist(err) after os.Open(path)
IsNotExist(file) == file.state = "absent"

\* os.Open(path) fails for another reason
OpenFails(file) == file.state = "unreadable"

\* mutant: a decode error is dropped
DecodeNeverFails(file) == FALSE

\* dec.Decode(&conf) returns an error
DecodeFails(file) == file.state = "malformed"

\* dec.Decode(&conf): the decoder adds the file's options to conf
Decode(conf, file) == conf \o file.emails

\* conf.Section("user").Option("email"): the last value of the key, or ""
OptionEmail(conf) == IF conf = <<>> THEN "" ELSE conf[Len(conf)]

VARIABLES
    cfFiles,        \* the configuration file found at each path
    cfIdx,          \* position of the loop in confPaths
    cfConf,         \* conf: the user.email options decoded so far
    cfOpened,       \* the paths os.Open was called on
    cfEmail,        \* what printVar("email", ...) printed, or NoOutput
    cfPc            \* "loop", "print", "done", "fatal", or "idle"

cfVars == <<cfFiles, cfIdx, cfConf, cfOpened, cfEmail, cfPc>>

ConfInit ==
    /\ cfFiles \in [Range(ConfPaths) -> ConfigFiles]
    /\ cfIdx = 1
    /\ cfConf = <<>>
    /\ cfOpened = {}
    /\ cfEmail = NoOutput
    /\ cfPc = "loop"

ConfIdle ==
    /\ cfFiles = <<>>
    /\ cfIdx = 0
    /\ cfConf = <<>>
    /\ cfOpened = {}
    /\ cfEmail = NoOutput
    /\ cfPc = "idle"

\* one iteration of `for _, path := range confPaths`
LoadConfig ==
    /\ cfPc = "loop"
    /\ LET path == ConfPaths[cfIdx]
           file == cfFiles[path]
           fatal == ~IsNotExist(file) /\ (OpenFails(file) \/ DecodeFails(file))
       IN  /\ cfOpened' = cfOpened \cup {path}
           /\ cfConf' = IF IsNotExist(file) \/ fatal THEN cfConf ELSE Decode(cfConf, file)
           /\ cfIdx' = IF fatal THEN cfIdx ELSE cfIdx + 1
           /\ cfPc' = IF fatal THEN "fatal"
                      ELSE IF cfIdx = Len(ConfPaths) THEN "print" ELSE "loop"
    /\ UNCHANGED <<cfFiles, cfEmail>>

\* printVar("email", "%q", conf.Section("user").Option("email"))
PrintEmail ==
    /\ cfPc = "print"
    /\ cfEmail' = OptionEmail(cfConf)
    /\ cfPc' = "done"
    /\ UNCHANGED <<cfFiles, cfIdx, cfConf, cfOpened>>

(***************************************************************************)
(* Properties of the user.email resolution.                                *)
(***************************************************************************)
\* the precedence of a source: system < XDG user config < home < local
Rank(path) ==
    CASE path = "system" -> 1
      [] path = "xdg" -> 2
      [] path = "home" -> 3
      [] path = "local" -> 4

Sources == {"system", "xdg", "home", "local"}

Defines(path) == cfFiles[path].state = "ok" /\ cfFiles[path].emails # <<>>

Broken(path) == cfFiles[path].state \in {"unreadable", "malformed"}

\* the value the claims expect when every source can be read
ExpectedEmail ==
    IF \A p \in Sources : ~Defines(p) THEN ""
    ELSE LET top == CHOOSE p \in Sources :
                        Defines(p) /\ \A q \in Sources : Defines(q) => Rank(q) <= Rank(p)
         IN  cfFiles[top].emails[Len(cfFiles[top].emails)]

\* C6: the resolved email is the last value of the key in the highest-ranked
\* source that defines it, "" when none does; absent sources are skipped
\* without error.
C6_HighestPrecedenceWins ==
    /\ cfPc = "done" => cfEmail = ExpectedEmail
    /\ cfPc = "fatal" => \E p \in Sources : Broken(p)
    /\ cfPc = "loop" => ENABLED LoadConfig

\* C6 witness: system defines a@x, the user sources are absent, local defines b@x
C6_Witness ==
    /\ cfPc = "done"
    /\ cfFiles["system"] = [state |-> "ok", emails |-> <<"a@x">>]
    /\ cfFiles["xdg"].state = "absent"
    /\ cfFiles["home"].state = "absent"
    /\ cfFiles["local"] = [state |-> "ok", emails |-> <<"a@x", "b@x">>]
    /\ cfEmail = "b@x"

\* C7: when a source exists and cannot be parsed, no email is ever printed, the
\* run never completes, no source of higher precedence is opened, and once the
\* malformed source has been opened the run is in its fatal state.
C7_MalformedAborts ==
    \A p \in Sources :
        cfFiles[p].state = "malformed" =>
            /\ cfEmail = NoOutput
            /\ cfPc \notin {"print", "done"}
            /\ \A q \in cfOpened : Rank(q) <= Rank(p)
            /\ p \in cfOpened => cfPc = "fatal"

\* C7 witness: the system config is malformed, the repository's config is
\* valid and defines the key, and the run has aborted
C7_Witness ==
    /\ cfPc = "fatal"
    /\ cfFiles["system"].state = "malformed"
    /\ cfFiles["local"] = [state |-> "ok", emails |-> <<"a@x">>]
    /\ cfOpened = {"system"}

(***************************************************************************)
(* The repository as git reports it.  The Stat-based program reads it only *)
(* through the output and exit status of git commands.                     *)
(***************************************************************************)
\* commits listed by one rev-list query
MaxRevs == 1

Space == {" ", "\n", "\t", "\r"}

RECURSIVE TrimLeft(_)
TrimLeft(str) ==
    IF str # <<>> /\ Head(str) \in Space THEN TrimLeft(Tail(str)) ELSE str

RECURSIVE TrimRight(_)
TrimRight(str) ==
    IF str # <<>> /\ str[Len(str)] \in Space
    THEN TrimRight(SubSeq(str, 1, Len(str) - 1))
    ELSE str

\* bytes.TrimSpace
TrimSpace(str) == TrimRight(TrimLeft(str))

\* strings.TrimPrefix
TrimPrefix(str, prefix) ==
    IF HasPrefix(str, prefix) THEN SubSeq(str, Len(prefix) + 1, Len(str)) ELSE str

DigitChars == <<"0", "1", "2", "3", "4", "5", "6", "7", "8", "9">>

RECURSIVE Decimal(_)
\* the decimal digits of n >= 0
Decimal(n) ==
    IF n < 10 THEN <<DigitChars[n + 1]>>
    ELSE Decimal(n \div 10) \o <<DigitChars[(n % 10) + 1]>>

LocalBranches == {<<"m">>, <<"m", "-", "x">>}

UpstreamBranch == <<"o", "/", "m">>

\* what `git branch -r` can list: nothing, origin/master, or o/m and origin/master
RemoteBranchLists ==
    {<<>>, <<OriginMaster>>, <<UpstreamBranch, OriginMaster>>}

\* the path lines of `git status --porcelain`
StatusEntries ==
    {<<>>,
     <<<<"?", "?", " ", "f">>>>,
     <<<<"M", " ", " ", "f">>>>,
     <<<<" ", "M", " ", "f">>>>}

\* the states of HEAD and of its upstream
HeadStates ==
    {[head |-> "unborn", local |-> <<"m">>, upstream |-> <<>>, gone |-> FALSE,
      ahead |-> 0, behind |-> 0],
     [head |-> "detached", local |-> <<>>, upstream |-> <<>>, gone |-> FALSE,
      ahead |-> 0, behind |-> 0]}
    \cup {[head |-> "branch", local |-> l, upstream |-> <<>>, gone |-> FALSE,
           ahead |-> 0, behind |-> 0] : l \in LocalBranches}
    \cup {[head |-> "branch", local |-> l, upstream |-> UpstreamBranch, gone |-> TRUE,
           ahead |-> 0, behind |-> 0] : l \in LocalBranches}
    \cup {[head |-> "branch", local |-> l, upstream |-> UpstreamBranch, gone |-> FALSE,
           ahead |-> a, behind |-> b] :
              l \in LocalBranches, a \in 0..MaxRevs, b \in 0..MaxRevs}

Repositories ==
    {[state |-> h, entries |-> e, email |-> m, remotes |-> r] :
        h \in HeadStates, e \in StatusEntries,
        m \in {<<>>, <<"a", "@", "x">>}, r \in RemoteBranchLists}

\* the tracking text git appends to the header of `status --branch --porcelain`
Tracking(h) ==
    IF h.gone THEN <<" ", "[", "g", "o", "n", "e", "]">>
    ELSE IF h.ahead > 0 /\ h.behind > 0
         THEN <<" ", "[", "a", "h", "e", "a", "d", " ">> \o Decimal(h.ahead) \o <<",", " ", "b", "e", "h", "i", "n", "d", " ">>
              \o Decimal(h.behind) \o <<"]">>
    ELSE IF h.ahead > 0 THEN <<" ", "[", "a", "h", "e", "a", "d", " ">> \o Decimal(h.ahead) \o <<"]">>
    ELSE IF h.behind > 0 THEN <<" ", "[", "b", "e", "h", "i", "n", "d", " ">> \o Decimal(h.behind) \o <<"]">>
    ELSE <<>>

\* the header line git writes for `status --branch --porcelain`
HeaderLine(h) ==
    CASE h.head = "unborn" -> <<"#", "#", " ", "N", "o", " ", "c", "o", "m", "m", "i", "t", "s", " ", "y", "e", "t", " ", "o", "n", " ">> \o h.local
      [] h.head = "detached" -> <<"#", "#", " ", "H", "E", "A", "D", " ", "(", "n", "o", " ", "b", "r", "a", "n", "c", "h", ")">>
      [] OTHER -> <<"#", "#", " ">> \o h.local
                  \o (IF h.upstream = <<>> THEN <<>>
                      ELSE <<".", ".", ".">> \o h.upstream \o Tracking(h))

\* the abbreviated hash of the last commit
LastHash == <<"1", "a", "2", "b", "3", "c", "4">>

LastMessage == <<"w", "i", "p", " ", "x">>

RemoteURL == <<"h", "t", "t", "p", "s", ":", "/", "/", "g", "i", "t", "h", "u", "b", ".", "c", "o", "m", "/", "k", "/", "p", ".", "g", "i", "t">>

\* a revision git can resolve in this repository
Resolves(repo, rev) ==
    \/ rev = <<"HEAD">> /\ repo.state.head # "unborn"
    \/ /\ rev = <<"HEAD", "@{u}">>
       /\ repo.state.head = "branch"
       /\ repo.state.upstream # <<>>
       /\ ~repo.state.gone
    \/ \E i \in 1..Len(repo.remotes) : repo.remotes[i] = rev

\* the lines of `rev-list base..head`
RevList(repo, base, head) ==
    LET n == IF head = base THEN 0
             ELSE IF head = <<"HEAD">> /\ base = <<"HEAD", "@{u}">> THEN repo.state.ahead
             ELSE IF head = <<"HEAD", "@{u}">> THEN repo.state.behind
             ELSE MaxRevs
    IN  [i \in 1..n |-> <<"c">>]

(***************************************************************************)
(* Git commands: argument lists.  An argument is a sequence of words and   *)
(* characters.                                                             *)
(***************************************************************************)
StatusArgs == << <<"status">>, <<"--branch">>, <<"--porcelain">> >>

EmailArgs == << <<"config">>, <<"user.email">> >>

StashArgs == << <<"stash">>, <<"list">> >>

LogArgs(pretty) == << <<"log">>, <<"-n1">>, <<"--pretty=", pretty>> >>

RevListArgs(baseBranch, headBranch) ==
    << <<"rev-list">>, baseBranch \o <<"..">> \o headBranch >>

RemoteArgs(branch) ==
    << <<"config">>, <<"--local">>, <<"--get">>, <<"branch.">> \o branch \o <<".remote">> >>

RemoteURLArgs(remote) == << <<"remote">>, <<"get-url">>, remote >>

BranchArgs == << <<"branch">>, <<"-r">> >>

\* `git log -n1`, as a client of the package may ask for it
LogOneArgs == << <<"log">>, <<"-n1">> >>

\* Head
Head_ == <<"HEAD">>

HeadUpstream == Head_ \o <<"@{u}">>

Ok(out) == [out |-> out, err |-> "nil"]

\* git ran and exited with a non-zero status: the cause is an *exec.ExitError
ExitStatus == [out |-> <<>>, err |-> "exit status"]

\* git could not be run or was killed: the cause is no "exit status ..." error
NotRun == [out |-> <<>>, err |-> "other"]

\* what git answers in this repository
GitAnswer(repo, args) ==
    CASE args = StatusArgs ->
            Ok(Unlines(<<HeaderLine(repo.state)>> \o repo.entries))
      [] args = EmailArgs ->
            IF repo.email = <<>> THEN ExitStatus ELSE Ok(repo.email \o <<"\n">>)
      [] args = StashArgs ->
            Ok(Unlines(<< <<"s", "t", "a", "s", "h", "@", "{", "0", "}", ":", " ", "W", "I", "P", " ", "o", "n", " ", "m">> >>))
      [] args = LogArgs("%h") ->
            IF repo.state.head = "unborn" THEN ExitStatus ELSE Ok(LastHash \o <<"\n">>)
      [] args = LogArgs("%ce") ->
            IF repo.state.head = "unborn" THEN ExitStatus ELSE Ok(<<"a", "@", "x">> \o <<"\n">>)
      [] args = LogArgs("%s") ->
            IF repo.state.head = "unborn" THEN ExitStatus ELSE Ok(LastMessage \o <<"\n">>)
      [] args = LogOneArgs ->
            IF repo.state.head = "unborn" THEN ExitStatus
            ELSE Ok(Unlines(<< <<"commit", " ">> \o LastHash, <<" ", " ", " ", " ">> \o LastMessage >>))
      [] args = BranchArgs ->
            Ok(Unlines([i \in 1..Len(repo.remotes) |-> <<" ", " ">> \o repo.remotes[i]]))
      [] Len(args) = 2 /\ args[1] = <<"rev-list">> /\ IndexOf(args[2], "..") # 0 ->
            LET i == IndexOf(args[2], "..")
                base == SubSeq(args[2], 1, i - 1)
                head == SubSeq(args[2], i + 1, Len(args[2]))
            IN  IF Resolves(repo, base) /\ Resolves(repo, head)
                THEN Ok(Unlines(RevList(repo, base, head)))
                ELSE ExitStatus
      [] Len(args) = 4 /\ SubSeq(args, 1, 3) = SubSeq(RemoteArgs(<<>>), 1, 3) ->
            IF /\ repo.state.head = "branch"
               /\ repo.state.upstream # <<>>
               /\ args[4] = <<"branch.">> \o repo.state.local \o <<".remote">>
            THEN Ok(<<"o">> \o <<"\n">>)
            ELSE ExitStatus
      [] Len(args) = 3 /\ SubSeq(args, 1, 2) = SubSeq(RemoteURLArgs(<<>>), 1, 2) ->
            IF args[3] = <<"o">> THEN Ok(RemoteURL \o <<"\n">>) ELSE ExitStatus
      [] OTHER -> ExitStatus

\* runGit: the possible results of running git with args
RunGit(repo, args) == {GitAnswer(repo, args), NotRun}

(***************************************************************************)
(* Git.Call and its result cache.                                          *)
(***************************************************************************)
RECURSIVE Join(_)
\* strings.Join(args, " ")
Join(args) ==
    IF args = <<>> THEN <<>>
    ELSE IF Len(args) = 1 THEN args[1]
    ELSE args[1] \o <<" ">> \o Join(Tail(args))

\* g.cache.Store(key, output)
Store(cache, key, output) == (key :> output) @@ cache

\* Git.Call(args...): the possible results, each with the cache it leaves
Call(repo, cache, args) ==
    LET key == Join(args)
    IN  IF key \in DOMAIN cache
        THEN {[out |-> cache[key], err |-> "nil", cache |-> cache]}
        ELSE {[out   |-> IF o.err = "nil" THEN o.out ELSE <<>>,
               err   |-> o.err,
               cache |-> IF o.err = "nil" THEN Store(cache, key, o.out) ELSE cache] :
                  o \in RunGit(repo, args)}

(***************************************************************************)
(* The helpers of git/util.go.                                             *)
(***************************************************************************)
\* errors.Cause(err).Error() starts with "exit status "
IsExitStatus(e) == e = "exit status"

\* str
Str(buf, e) == [val |-> TrimSpace(buf), err |-> e]

\* strOrEmpty
StrOrEmpty(buf, e) == Str(buf, IF IsExitStatus(e) THEN "nil" ELSE e)

\* count
Count(buf, e) ==
    IF e # "nil" THEN [val |-> 0, err |-> e]
    ELSE [val |-> Len(ScanLines(buf)), err |-> "nil"]

\* mutant: an exit status is kept as the error
CountKeepsExitStatus(buf, e) == Count(buf, e)

\* countOrZero
CountOrZero(buf, e) == Count(buf, IF IsExitStatus(e) THEN "nil" ELSE e)

(***************************************************************************)
(* The status header: branchRegexp, Git.Branch, Git.Upstream.              *)
(***************************************************************************)
BranchPrefix == <<"#", "#", " ">>

BranchInitPrefix == BranchPrefix \o <<"N", "o", " ", "c", "o", "m", "m", "i", "t", "s", " ", "y", "e", "t", " ", "o", "n", " ">>

\* \S+ : a non-empty run without white space
NonSpaceRun(str) == str # <<>> /\ \A i \in 1..Len(str) : str[i] \notin Space

\* \d+
DigitRun(str) == str # <<>> /\ \A i \in 1..Len(str) : str[i] \in Range(DigitChars)

\* ( \[(?:ahead|behind) \d+\])
TrackingGroup(str) ==
    \E word \in {<<"a", "h", "e", "a", "d">>, <<"b", "e", "h", "i", "n", "d">>} :
        LET open == <<" ", "[">> \o word \o <<" ">>
        IN  /\ HasPrefix(str, open)
            /\ str[Len(str)] = "]"
            /\ DigitRun(SubSeq(str, Len(open) + 1, Len(str) - 1))

\* \S+/\S+
RemoteGroup(str) ==
    /\ NonSpaceRun(str)
    /\ \E i \in 2..(Len(str) - 1) : str[i] = "/"

\* branchRegexp.FindStringSubmatch(line): <<>> when the line does not match,
\* else the whole match and the three groups.  The pattern is anchored at both
\* ends; group 1 is greedy, so the last "..." that lets the rest match ends it.
FindBranchSubmatch(line) ==
    LET rest == TrimPrefix(line, BranchPrefix)
        n == Len(rest)
        \* the end of group 2 when group 1 ends at i
        RemoteEnd(i) ==
            IF \E k \in (i + 4)..n : rest[k] \in Space
            THEN (CHOOSE k \in (i + 4)..n :
                     rest[k] \in Space /\ \A j \in (i + 4)..(k - 1) : rest[j] \notin Space) - 1
            ELSE n
        Fits(i) ==
            /\ NonSpaceRun(SubSeq(rest, 1, i))
            /\ SubSeq(rest, i + 1, i + 3) = <<".", ".", ".">>
            /\ RemoteGroup(SubSeq(rest, i + 4, RemoteEnd(i)))
            /\ \/ RemoteEnd(i) = n
               \/ TrackingGroup(SubSeq(rest, RemoteEnd(i) + 1, n))
        ends == {i \in 1..(n - 3) : Fits(i)}
    IN  IF ~HasPrefix(line, BranchPrefix) \/ ends = {} THEN <<>>
        ELSE LET i == CHOOSE e \in ends : \A f \in ends : f <= e
             IN  <<line,
                   SubSeq(rest, 1, i),
                   SubSeq(rest, i + 4, RemoteEnd(i)),
                   SubSeq(rest, RemoteEnd(i) + 1, n)>>

\* Git.Branch, given what Call returned
Branch(buf, e) ==
    IF e # "nil" THEN [val |-> <<>>, err |-> e]
    ELSE LET lines == ScanLines(buf)
         IN  [err |-> "nil",
              val |-> IF lines = <<>> THEN <<>>
                      ELSE IF ~HasPrefix(lines[1], BranchPrefix) THEN <<>>
                      ELSE IF HasPrefix(lines[1], BranchInitPrefix)
                           THEN TrimPrefix(lines[1], BranchInitPrefix)
                      ELSE IF Len(FindBranchSubmatch(lines[1])) >= 2
                           THEN FindBranchSubmatch(lines[1])[2]
                      ELSE TrimPrefix(lines[1], BranchPrefix)]

\* Git.Upstream, given what Call returned
Upstream(buf, e) ==
    IF e # "nil" THEN [val |-> <<>>, err |-> e]
    ELSE LET lines == ScanLines(buf)
         IN  [err |-> "nil",
              val |-> IF lines = <<>> THEN <<>>
                      ELSE IF Len(FindBranchSubmatch(lines[1])) >= 3
                           THEN FindBranchSubmatch(lines[1])[3]
                      ELSE <<>>]

(***************************************************************************)
(* The working-tree flags: Git.Staged, Git.Unstaged, Git.Untracked.        *)
(***************************************************************************)
\* mutant: any mark in the first column counts as staged
StagedOnAnyMark(buf, e) ==
    IF e # "nil" THEN [val |-> FALSE, err |-> e]
    ELSE [err |-> "nil",
          val |-> \E i \in 1..Len(ScanLines(buf)) :
                      LET line == ScanLines(buf)[i]
                      IN  Len(line) >= 1 /\ line[1] # " "]

Staged(buf, e) ==
    IF e # "nil" THEN [val |-> FALSE, err |-> e]
    ELSE [err |-> "nil",
          val |-> \E i \in 1..Len(ScanLines(buf)) :
                      LET line == ScanLines(buf)[i]
                      IN  Len(line) >= 1 /\ line[1] \in {"M", "D", "R", "A"}]

Unstaged(buf, e) ==
    IF e # "nil" THEN [val |-> FALSE, err |-> e]
    ELSE [err |-> "nil",
          val |-> \E i \in 1..Len(ScanLines(buf)) :
                      LET line == ScanLines(buf)[i]
                      IN  Len(line) >= 2 /\ line[2] \in {"M", "D"}]

Untracked(buf, e) ==
    IF e # "nil" THEN [val |-> FALSE, err |-> e]
    ELSE [err |-> "nil",
          val |-> \E i \in 1..Len(ScanLines(buf)) :
                      HasPrefix(ScanLines(buf)[i], <<"?", "?">>)]

(***************************************************************************)
(* The Stat-based main.                                                    *)
(***************************************************************************)
\* \w of wipRegexp
WordChars == {"0", "1", "2", "3", "4", "5", "6", "7", "8", "9", "A", "B", "C", "D", "E", "F", "G", "H", "I", "J", "K", "L", "M", "N", "O", "P", "Q", "R", "S", "T", "U", "V", "W", "X", "Y", "Z", "_", "a", "b", "c", "d", "e", "f", "g", "h", "i", "j", "k", "l", "m", "n", "o", "p", "q", "r", "s", "t", "u", "v", "w", "x", "y", "z"}

\* wipRegexp.MatchString: ^wip(\W|$)
WipMatch(msg) ==
    /\ HasPrefix(msg, <<"w", "i", "p">>)
    /\ (Len(msg) = 3 \/ msg[4] \notin WordChars)

\* characters of the hash kept in the detached-HEAD placeholder
PlaceholderLen == 6

\* the name main compares stat.Branch with before it substitutes the placeholder
DetachedName == <<"H", "E", "A", "D">>

\* string(([]rune(stat.Hash))[:6]) + "..."
Placeholder(hash) == SubSeq(hash, 1, PlaceholderLen) \o <<".", ".", ".">>

GithubPrefix == <<"h", "t", "t", "p", "s", ":", "/", "/", "g", "i", "t", "h", "u", "b", ".", "c", "o", "m", "/">>

\* strings.TrimSuffix(strings.TrimPrefix(remoteURL, "https://github.com/"), ".git")
RepoName(url) ==
    LET name == TrimPrefix(url, GithubPrefix)
        suffix == <<".", "g", "i", "t">>
    IN  IF Len(name) >= Len(suffix)
           /\ SubSeq(name, Len(name) - Len(suffix) + 1, Len(name)) = suffix
        THEN SubSeq(name, 1, Len(name) - Len(suffix))
        ELSE name

\* var stat Stat
ZeroStat ==
    [Name |-> <<>>, Branch |-> <<>>, Hash |-> <<>>, Staged |-> FALSE,
     Unstaged |-> FALSE, Untracked |-> FALSE, Email |-> <<>>, StashCount |-> 0,
     LastEmail |-> <<>>, LastMessage |-> <<>>, Wip |-> FALSE, Upstream |-> <<>>,
     Behind |-> 0, Ahead |-> 0, BaseBranch |-> <<>>, BaseBehind |-> 0]

NoCall == [method |-> "", gitErr |-> "nil", err |-> "nil", val |-> 0, aborted |-> FALSE]

VARIABLES
    repo,           \* the repository git reports on
    pretty,         \* option.Style is "pretty"
    cache,          \* Git.cache: joined arguments -> output
    stat,           \* the Stat being filled in
    remote,         \* main's local `remote`
    stPc,           \* the statement main is at, "exit", "panic", or "idle"
    lastCall,       \* the Git method main called last, git's error, the method's
                    \* result, and whether assertError panicked on it
    stdout          \* what has been written to os.Stdout

stVars == <<repo, pretty, cache, stat, remote, stPc, lastCall, stdout>>

StatInit ==
    /\ repo \in Repositories
    /\ pretty \in BOOLEAN
    /\ cache = <<>>
    /\ stat = ZeroStat
    /\ remote = <<>>
    /\ stPc = "OpenDir"
    /\ lastCall = NoCall
    /\ stdout = <<>>

StatIdle ==
    /\ repo = <<>>
    /\ pretty = FALSE
    /\ cache = <<>>
    /\ stat = ZeroStat
    /\ remote = <<>>
    /\ stPc = "idle"
    /\ lastCall = NoCall
    /\ stdout = <<>>

\* mutant: an error is logged and main goes on with the zero value
AssertLogsAndGoesOn(method, c, r, newStat, next) ==
    /\ cache' = c.cache
    /\ lastCall' = [method |-> method, gitErr |-> c.err, err |-> r.err, val |-> r.val,
                    aborted |-> r.err # "nil"]
    /\ stPc' = next
    /\ stat' = newStat
    /\ UNCHANGED <<repo, pretty, stdout>>

\* assertError(ctx, err, ...) after a Git method: panic on an error, else go on
AssertAndSet(method, c, r, newStat, next) ==
    /\ cache' = c.cache
    /\ lastCall' = [method |-> method, gitErr |-> c.err, err |-> r.err, val |-> r.val,
                    aborted |-> r.err # "nil"]
    /\ IF r.err # "nil"
       THEN stPc' = "panic" /\ stat' = stat
       ELSE stPc' = next /\ stat' = newStat
    /\ UNCHANGED <<repo, pretty, stdout>>

\* git.OpenDir(option.Dir): not in a work tree (silent return), a failure, or a handle
OpenDir ==
    /\ stPc = "OpenDir"
    /\ stPc' \in {"exit", "panic", "Staged"}
    /\ UNCHANGED <<repo, pretty, cache, stat, remote, lastCall, stdout>>

StagedVar ==
    /\ stPc = "Staged"
    /\ \E c \in Call(repo, cache, StatusArgs) :
          LET r == Staged(c.out, c.err)
          IN  AssertAndSet("Staged", c, r, [stat EXCEPT !.Staged = r.val], "Unstaged")
    /\ UNCHANGED remote

UnstagedVar ==
    /\ stPc = "Unstaged"
    /\ \E c \in Call(repo, cache, StatusArgs) :
          LET r == Unstaged(c.out, c.err)
          IN  AssertAndSet("Unstaged", c, r, [stat EXCEPT !.Unstaged = r.val], "Untracked")
    /\ UNCHANGED remote

UntrackedVar ==
    /\ stPc = "Untracked"
    /\ \E c \in Call(repo, cache, StatusArgs) :
          LET r == Untracked(c.out, c.err)
          IN  AssertAndSet("Untracked", c, r, [stat EXCEPT !.Untracked = r.val], "Email")
    /\ UNCHANGED remote

\* Git.Email: str(g.Call("config", "user.email"))
EmailVar ==
    /\ stPc = "Email"
    /\ \E c \in Call(repo, cache, EmailArgs) :
          LET r == Str(c.out, c.err)
          IN  AssertAndSet("Email", c, r, [stat EXCEPT !.Email = r.val], "StashCount")
    /\ UNCHANGED remote

StashCountVar ==
    /\ stPc = "StashCount"
    /\ \E c \in Call(repo, cache, StashArgs) :
          LET r == Count(c.out, c.err)
          IN  AssertAndSet("StashCount", c, r, [stat EXCEPT !.StashCount = r.val],
                           "LastCommitHash")
    /\ UNCHANGED remote

LastCommitHashVar ==
    /\ stPc = "LastCommitHash"
    /\ \E c \in Call(repo, cache, LogArgs("%h")) :
          LET r == Str(c.out, c.err)
          IN  AssertAndSet("LastCommitHash", c, r, [stat EXCEPT !.Hash = r.val], "Upstream")
    /\ UNCHANGED remote

UpstreamVar ==
    /\ stPc = "Upstream"
    /\ \E c \in Call(repo, cache, StatusArgs) :
          LET r == Upstream(c.out, c.err)
          IN  AssertAndSet("Upstream", c, r, [stat EXCEPT !.Upstream = r.val], "AheadCount")
    /\ UNCHANGED remote

\* Git.diffCount(baseBranch, headBranch), given what Call returned
DiffCount(buf, e) == CountOrZero(buf, e)

\* Git.AheadCount: diffCount(Head+"@{u}", Head)
AheadCountVar ==
    /\ stPc = "AheadCount"
    /\ \E c \in Call(repo, cache, RevListArgs(HeadUpstream, Head_)) :
          LET r == DiffCount(c.out, c.err)
          IN  AssertAndSet("AheadCount", c, r, [stat EXCEPT !.Ahead = r.val], "BehindCount")
    /\ UNCHANGED remote

\* Git.BehindCount: BehindCountFrom(Head+"@{u}")
BehindCountVar ==
    /\ stPc = "BehindCount"
    /\ \E c \in Call(repo, cache, RevListArgs(Head_, HeadUpstream)) :
          LET r == DiffCount(c.out, c.err)
          IN  AssertAndSet("BehindCount", c, r, [stat EXCEPT !.Behind = r.val], "Branch")
    /\ UNCHANGED remote

BranchVar ==
    /\ stPc = "Branch"
    /\ \E c \in Call(repo, cache, StatusArgs) :
          LET r == Branch(c.out, c.err)
          IN  AssertAndSet("Branch", c, r, [stat EXCEPT !.Branch = r.val], "LastCommitter")
    /\ UNCHANGED remote

LastCommitterVar ==
    /\ stPc = "LastCommitter"
    /\ \E c \in Call(repo, cache, LogArgs("%ce")) :
          LET r == Str(c.out, c.err)
          IN  AssertAndSet("LastCommitter", c, r, [stat EXCEPT !.LastEmail = r.val],
                           "LastCommitMessage")
    /\ UNCHANGED remote

LastCommitMessageVar ==
    /\ stPc = "LastCommitMessage"
    /\ \E c \in Call(repo, cache, LogArgs("%s")) :
          LET r == Str(c.out, c.err)
          IN  AssertAndSet("LastCommitMessage", c, r, [stat EXCEPT !.LastMessage = r.val],
                           "Wip")
    /\ UNCHANGED remote

\* the Branch field after `if stat.Branch == "HEAD" { ... }`
BranchOrPlaceholder(branch, hash) ==
    IF branch = DetachedName THEN Placeholder(hash) ELSE branch

\* the wip flag and the detached-HEAD placeholder; slicing a hash of fewer than
\* six runes panics
WipAndPlaceholder ==
    /\ stPc = "Wip"
    /\ IF stat.Branch = DetachedName /\ Len(stat.Hash) < PlaceholderLen
       THEN stPc' = "panic" /\ stat' = stat
       ELSE /\ stPc' = "Remote"
            /\ stat' = [stat EXCEPT
                          !.Wip = WipMatch(stat.LastMessage),
                          !.Branch = BranchOrPlaceholder(stat.Branch, stat.Hash)]
    /\ UNCHANGED <<repo, pretty, cache, remote, lastCall, stdout>>

\* Git.Remote: strOrEmpty(g.Call("config", "--local", "--get", "branch.<b>.remote"))
Remote ==
    /\ stPc = "Remote"
    /\ \E c \in Call(repo, cache, RemoteArgs(stat.Branch)) :
          LET r == StrOrEmpty(c.out, c.err)
          IN  /\ AssertAndSet("Remote", c, r, stat, "RemoteURL")
              /\ remote' = IF r.err = "nil" THEN r.val ELSE remote

\* Git.RemoteURL: strOrEmpty(g.Call("remote", "get-url", remote))
RemoteURLStep ==
    /\ stPc = "RemoteURL"
    /\ \E c \in Call(repo, cache, RemoteURLArgs(remote)) :
          LET r == StrOrEmpty(c.out, c.err)
          IN  AssertAndSet("RemoteURL", c, r,
                           IF HasPrefix(r.val, GithubPrefix)
                           THEN [stat EXCEPT !.Name = RepoName(r.val)]
                           ELSE stat,
                           "BaseBranch")
    /\ UNCHANGED remote

\* Git.BaseBranch, given what Call returned
BaseBranch(branch, buf, e) ==
    IF e # "nil" THEN [val |-> <<>>, err |-> e]
    ELSE [val |-> BaseBranchOf(branch, buf), err |-> "nil"]

BaseBranchStep ==
    /\ stPc = "BaseBranch"
    /\ \E c \in Call(repo, cache, BranchArgs) :
          LET r == BaseBranch(stat.Branch, c.out, c.err)
          IN  AssertAndSet("BaseBranch", c, r, [stat EXCEPT !.BaseBranch = r.val],
                           "BehindCountFrom")
    /\ UNCHANGED remote

\* Git.BehindCountFrom(baseBranch): diffCount(Head, baseBranch)
BehindCountFrom ==
    /\ stPc = "BehindCountFrom"
    /\ \E c \in Call(repo, cache, RevListArgs(Head_, stat.BaseBranch)) :
          LET r == DiffCount(c.out, c.err)
          IN  AssertAndSet("BehindCountFrom", c, r, [stat EXCEPT !.BaseBehind = r.val],
                           "Pretty")
    /\ UNCHANGED remote

\* if pretty { json.NewEncoder(os.Stdout).Encode(stat) }: the encoder writes the
\* whole document with one Write; a failed write panics
OutputPretty ==
    /\ stPc = "Pretty"
    /\ IF pretty
       THEN \/ /\ stdout' = Append(stdout, [as |-> "json", stat |-> stat, whole |-> TRUE])
               /\ stPc' = "Template"
            \/ stdout' = stdout /\ stPc' = "panic"
       ELSE stdout' = stdout /\ stPc' = "Template"
    /\ UNCHANGED <<repo, pretty, cache, stat, remote, lastCall>>

\* tmp.Execute(os.Stdout, stat).  With the pretty style the format is "" and
\* nothing is written.  Otherwise the template writes to os.Stdout piece by
\* piece as it executes: an error (of the execution or of a write) stops it with
\* the pieces written so far left on os.Stdout, and assertError panics.
OutputStats ==
    /\ stPc = "Template"
    /\ IF pretty
       THEN stdout' = stdout /\ stPc' = "exit"
       ELSE \/ /\ stdout' = Append(stdout, [as |-> "template", stat |-> stat, whole |-> TRUE])
               /\ stPc' = "exit"
            \/ /\ stdout' = Append(stdout, [as |-> "template", stat |-> stat, whole |-> FALSE])
               /\ stPc' = "panic"
            \/ stdout' = stdout /\ stPc' = "panic"
    /\ UNCHANGED <<repo, pretty, cache, stat, remote, lastCall>>

(***************************************************************************)
(* Git.Call as the package exports it: a client calls it on one open       *)
(* handle, any number of times, with argument lists of its choice.         *)
(***************************************************************************)
\* the words of args joined into one argument, as in Call("log -n1")
AsOneArgument(args) == <<Join(args)>>

\* the argument lists the client passes
CallArgLists ==
    LET lists == {LogOneArgs, StatusArgs, EmailArgs, LogArgs("%h")}
    IN  lists \cup {AsOneArgument(a) : a \in lists}

CallRepositories ==
    {r \in Repositories : r.entries = <<>> /\ r.remotes = <<>>}

NoResult == [out |-> <<>>, err |-> "none"]

VARIABLES
    callArgs,       \* the arguments of the last Git.Call
    callResult      \* what it returned

clVars == <<callArgs, callResult>>

CallIdle ==
    /\ callArgs = <<>>
    /\ callResult = NoResult

\* a handle just opened by OpenDir
CallInit ==
    /\ repo \in CallRepositories
    /\ pretty = FALSE
    /\ cache = <<>>
    /\ stat = ZeroStat
    /\ remote = <<>>
    /\ stPc = "Call"
    /\ lastCall = NoCall
    /\ stdout = <<>>
    /\ CallIdle

\* g.Call(args...)
GitCall ==
    /\ stPc = "Call"
    /\ \E a \in CallArgLists : \E c \in Call(repo, cache, a) :
          /\ cache' = c.cache
          /\ callArgs' = a
          /\ callResult' = [out |-> c.out, err |-> c.err]
    /\ UNCHANGED <<repo, pretty, stat, remote, stPc, lastCall, stdout>>

(***************************************************************************)
(* The working-tree flags over every status listing: main's first three    *)
(* steps, run on listings of up to MaxEntries path lines.                  *)
(***************************************************************************)
\* path lines of one status listing
MaxEntries == 2

\* the two status columns git prints before a path: index and work tree
\* changes, an unmerged path, an untracked path
StatusCodes ==
    ({<<x, y>> : x \in {" ", "M", "A", "D", "R"}, y \in {" ", "M", "D"}}
        \ {<<" ", " ">>})
    \cup {<<"U", "U">>, <<"?", "?">>}

StatusLines == {code \o <<" ", "f">> : code \in StatusCodes}

StatusListings == TuplesUpTo(StatusLines, MaxEntries)

\* an unborn branch, a detached HEAD, a branch with an upstream
FlagHeadStates ==
    {h \in HeadStates : h.head # "branch" \/ (h.local = <<"m">> /\ h.gone)}

FlagRepositories ==
    {[state |-> h, entries |-> e, email |-> <<>>, remotes |-> <<>>] :
        h \in FlagHeadStates, e \in StatusListings}

\* main with the repository open, about to compute the flags
FlagsInit ==
    /\ repo \in FlagRepositories
    /\ pretty = FALSE
    /\ cache = <<>>
    /\ stat = ZeroStat
    /\ remote = <<>>
    /\ stPc = "Staged"
    /\ lastCall = NoCall
    /\ stdout = <<>>

(***************************************************************************)
(* Properties of the Stat-based main and of the Git helpers.               *)
(***************************************************************************)
\* C8 as stated: when no configuration source defines user.email (the query
\* exits with a non-zero status), Git.Email yields "" with a nil error and the
\* invocation goes on.
C8_UnsetEmailIsNoError ==
    (lastCall.method = "Email" /\ repo.email = <<>> /\ lastCall.gitErr = "exit status")
        => (lastCall.err = "nil" /\ stat.Email = <<>> /\ ~lastCall.aborted)

\* the reference a count query was asked about does not resolve
CountedReferenceUnresolved ==
    \/ /\ lastCall.method \in {"AheadCount", "BehindCount"}
       /\ ~Resolves(repo, HeadUpstream)
    \/ /\ lastCall.method = "BehindCountFrom"
       /\ ~Resolves(repo, stat.BaseBranch)

\* C9 as stated: a count query on a reference that does not resolve reports
\* an error and never a count with a nil error.
C9_UnresolvedIsError ==
    CountedReferenceUnresolved => lastCall.err # "nil"

\* C9 amended: when the reference does not resolve, git exits with a non-zero
\* status and the count query returns 0 with a nil error, and main goes on; an
\* error is reported only when git could not be run at all.
C9_UnresolvedCountsZero ==
    CountedReferenceUnresolved =>
        /\ lastCall.gitErr = "exit status" =>
               (lastCall.err = "nil" /\ lastCall.val = 0 /\ ~lastCall.aborted)
        /\ lastCall.gitErr = "other" =>
               (lastCall.err = "other" /\ lastCall.aborted /\ stPc = "panic")
        /\ lastCall.gitErr # "nil"

\* C9 witness: no upstream is configured and AheadCount has returned 0, nil
C9_Witness ==
    /\ lastCall.method = "AheadCount"
    /\ repo.state.upstream = <<>>
    /\ lastCall.gitErr = "exit status"
    /\ lastCall.err = "nil"
    /\ lastCall.val = 0
    /\ stPc = "BehindCount"

\* C10 as stated: with a detached HEAD the Branch field of the snapshot is the
\* first six characters of the last commit's abbreviated hash followed by
\* "...", never the raw header text.
C10_DetachedShowsPlaceholder ==
    (repo # <<>> /\ repo.state.head = "detached") =>
        \A i \in 1..Len(stdout) :
            stdout[i].stat.Branch = SubSeq(LastHash, 1, 6) \o <<".", ".", ".">>

\* a step of the Stat-based main
StatStep ==
    \/ OpenDir \/ StagedVar \/ UnstagedVar \/ UntrackedVar \/ EmailVar
    \/ StashCountVar \/ LastCommitHashVar \/ UpstreamVar \/ AheadCountVar
    \/ BehindCountVar \/ BranchVar \/ LastCommitterVar \/ LastCommitMessageVar
    \/ WipAndPlaceholder \/ Remote \/ RemoteURLStep \/ BaseBranchStep
    \/ BehindCountFrom \/ OutputPretty \/ OutputStats

\* main is past the last step that computes a field of the snapshot
AllFieldsComputed ==
    \/ stPc \in {"Pretty", "Template", "exit"}
    \/ stPc = "panic" /\ lastCall.method = "BehindCountFrom" /\ ~lastCall.aborted

\* C11 as stated: nothing is written to standard output before every field of
\* the snapshot has been computed, and when any step returns an error the run
\* stops there with nothing, not even part of a snapshot, on standard output.
C11_AnyErrorEmitsNothing ==
    /\ stdout # <<>> => AllFieldsComputed
    /\ stPc = "panic" => (stdout = <<>> /\ ~ENABLED StatStep)

\* C11 amended: nothing is written before every field has been computed, and
\* what is written is rendered from the complete snapshot; an error of a step
\* that computes a field stops the run at that step with nothing ever written;
\* no step follows an error.  An error of the template execution also stops the
\* run, but the part of the rendering written before it stays on standard
\* output.
C11_FieldErrorEmitsNothing ==
    /\ stdout # <<>> =>
           /\ AllFieldsComputed
           /\ \A i \in 1..Len(stdout) :
                  /\ stdout[i].stat = stat
                  /\ stdout[i].stat.Hash # <<>>
                  /\ stdout[i].stat.BaseBranch # <<>>
    /\ lastCall.aborted => (stPc = "panic" /\ stdout = <<>>)
    /\ (stPc = "panic" /\ ~AllFieldsComputed) => stdout = <<>>
    /\ stPc = "panic" => ~ENABLED StatStep
    /\ (stPc = "panic" /\ stdout # <<>>) =>
           /\ ~pretty
           /\ Len(stdout) = 1
           /\ stdout[1].as = "template"
           /\ ~stdout[1].whole

\* C11 witness: the last field step, BehindCountFrom, failed after every other
\* field had been computed; main has panicked and nothing was written
C11_Witness ==
    /\ lastCall.method = "BehindCountFrom"
    /\ lastCall.aborted
    /\ stat.BaseBranch # <<>>
    /\ stPc = "panic"
    /\ stdout = <<>>

\* the lines of the status listing: the header and the path lines
ListingOf(r) == <<HeaderLine(r.state)>> \o r.entries

IsUntrackedLine(line) == Len(line) >= 2 /\ line[1] = "?" /\ line[2] = "?"

IsHeaderLine(line) == Len(line) >= 2 /\ line[1] = "#" /\ line[2] = "#"

\* the lines that stand for a tracked path
TrackedLines(r) ==
    {i \in 1..Len(ListingOf(r)) :
        ~IsUntrackedLine(ListingOf(r)[i]) /\ ~IsHeaderLine(ListingOf(r)[i])}

\* the flags main holds once the step `method` has returned without an error
FlagSet(method) ==
    /\ ~lastCall.aborted
    /\ \/ lastCall.method = "Untracked"
       \/ lastCall.method = "Unstaged" /\ method \in {"Staged", "Unstaged"}
       \/ lastCall.method = "Staged" /\ method = "Staged"

\* C12: Untracked is true exactly when some line of the listing begins with
\* "??"; Staged and Unstaged are true only on account of a line that is neither
\* an untracked line nor the header (a staged mark M, D, R or A in the first
\* column, a work-tree mark M or D in the second); so a listing whose only path
\* lines are untracked gives untracked = true, staged = false, unstaged = false.
C12_UntrackedFlagOnly ==
    repo # <<>> =>
        LET lines == ListingOf(repo)
        IN  /\ FlagSet("Untracked") =>
                   (stat.Untracked <=> \E i \in 1..Len(lines) : IsUntrackedLine(lines[i]))
            /\ FlagSet("Staged") =>
                   (stat.Staged <=> \E i \in TrackedLines(repo) :
                                       lines[i][1] \in {"M", "D", "R", "A"})
            /\ FlagSet("Unstaged") =>
                   (stat.Unstaged <=> \E i \in TrackedLines(repo) :
                                         lines[i][2] \in {"M", "D"})
            /\ (FlagSet("Untracked") /\ repo.entries # <<>> /\ TrackedLines(repo) = {}) =>
                   (stat.Untracked /\ ~stat.Staged /\ ~stat.Unstaged)

\* C12 witness: the flags were computed on a listing of two untracked paths
C12_Witness ==
    /\ repo # <<>>
    /\ Len(repo.entries) = 2
    /\ TrackedLines(repo) = {}
    /\ lastCall.method = "Untracked"
    /\ ~lastCall.aborted
    /\ stat.Untracked /\ ~stat.Staged /\ ~stat.Unstaged

\* C13 as stated: whatever was called before on the handle, Call(args) returns
\* what running git with exactly args returns (its output, or its error); an
\* entry cached for another argument list is never served.
C13_CacheKeyedByArguments ==
    callResult # NoResult =>
        \E o \in RunGit(repo, callArgs) :
            /\ callResult.err = o.err
            /\ o.err = "nil" => callResult.out = o.out

\* C14 as stated: when the header names a local branch and its upstream, with
\* or without tracking text ([ahead n], [behind n], [ahead n, behind m],
\* [gone]), Git.Upstream returns exactly the upstream and Git.Branch exactly
\* the local branch.
C14_HeaderSplitsIntoBranchAndUpstream ==
    (repo # <<>> /\ repo.state.head = "branch" /\ repo.state.upstream # <<>>) =>
        /\ (lastCall.method = "Upstream" /\ ~lastCall.aborted) =>
               stat.Upstream = repo.state.upstream
        /\ (lastCall.method = "Branch" /\ ~lastCall.aborted) =>
               stat.Branch = repo.state.local

\* the same, for headers without tracking text or with a single [ahead n] or
\* [behind n]: the headers branchRegexp matches
C14_SingleTrackingSplits ==
    (/\ repo # <<>> /\ repo.state.head = "branch" /\ repo.state.upstream # <<>>
     /\ ~repo.state.gone /\ ~(repo.state.ahead > 0 /\ repo.state.behind > 0)) =>
        /\ (lastCall.method = "Upstream" /\ ~lastCall.aborted) =>
               stat.Upstream = repo.state.upstream
        /\ (lastCall.method = "Branch" /\ ~lastCall.aborted) =>
               stat.Branch = repo.state.local

(***************************************************************************)
(* Properties of countCommit.                                              *)
(***************************************************************************)
RECURSIVE Reach(_, _)
\* the commits reachable from c, c included
Reach(g, c) == {c} \cup UNION {Reach(g, p) : p \in Range(g[c])}

\* no commit reachable from c is a merge commit
LinearFrom(g, c) == \A d \in Reach(g, c) : Len(g[d]) <= 1

RECURSIVE FirstParentAncestor(_, _, _)
\* the commit n first-parent steps below c, or None when the history is shorter
FirstParentAncestor(g, c, n) ==
    IF n = 0 THEN c
    ELSE IF g[c] = <<>> THEN None
         ELSE FirstParentAncestor(g, g[c][1], n - 1)

Returned == pc = "done" /\ ~err

\* C1: in a linear history where B lies n >= 0 first-parent steps below A,
\* countCommit(A, B) returns n and countCommit(B, A) returns 0, whatever the
\* length of the history below B (B may be the root commit).
C1_LinearAheadBehind ==
    Returned =>
        \A n \in 0..MaxCommits :
            /\ (LinearFrom(parents, toCommit)
                /\ FirstParentAncestor(parents, toCommit, n) = fromCommit)
               => result = n
            /\ (LinearFrom(parents, fromCommit)
                /\ FirstParentAncestor(parents, fromCommit, n) = toCommit)
               => result = 0

\* C1 witness: ahead by 2 over a base commit that has history of its own
C1_Witness ==
    /\ Returned
    /\ LinearFrom(parents, toCommit)
    /\ FirstParentAncestor(parents, toCommit, 2) = fromCommit
    /\ parents[fromCommit] # <<>>
    /\ result = 2

\* the commits reachable from `to` that are not reachable from `from`
ExactDifference == Reach(parents, toCommit) \ Reach(parents, fromCommit)

\* C2 as stated: for every commit graph, merge commits included, countCommit
\* returns the number of commits reachable from `to` and not from `from`.
C2_ExactOnEveryGraph ==
    Returned => result = Cardinality(ExactDifference)

\* C2 amended: the count is exact whenever no commit reachable from `to` or
\* from `from` is a merge commit.
C2_ExactWithoutMerges ==
    (Returned /\ LinearFrom(parents, toCommit) /\ LinearFrom(parents, fromCommit))
        => result = Cardinality(ExactDifference)

\* C2 witness: two merge-free branches that forked, both with commits of their own
C2_Witness ==
    /\ Returned
    /\ LinearFrom(parents, toCommit) /\ LinearFrom(parents, fromCommit)
    /\ Reach(parents, toCommit) \cap Reach(parents, fromCommit) # {}
    /\ toCommit \notin Reach(parents, fromCommit)
    /\ fromCommit \notin Reach(parents, toCommit)
    /\ result = 2

Unrelated == Reach(parents, toCommit) \cap Reach(parents, fromCommit) = {}

ToLength == Cardinality(Reach(parents, toCommit))

FromLength == Cardinality(Reach(parents, fromCommit))

\* C3: for commits with no shared ancestry the call terminates (every step is
\* followed by another until it returns, and the loop never runs past the
\* first iteration in which both walkers are exhausted, which is iteration
\* max(|to ancestry|, |from ancestry|) + 1), and it returns the number of
\* commits in the whole ancestry of `to`, even when `from` is exhausted first.
C3_UnrelatedTerminates ==
    Unrelated =>
        /\ round <= Max(ToLength, FromLength) + 1
        /\ pc # "done" => ENABLED (ToPull \/ FromPull \/ Return)
        /\ (pc \in {"return", "done"} /\ ~err) =>
               /\ round = Max(ToLength, FromLength) + 1
               /\ commonCommit = None
               /\ ~remain
               /\ Range(toArr) = Reach(parents, toCommit)
        /\ Returned => result = ToLength

\* C3 witness: unrelated histories, the `from` side the shorter one
C3_Witness ==
    /\ Unrelated
    /\ Returned
    /\ FromLength = 2
    /\ ToLength = 3
    /\ result = 3

\* x is the nearest common ancestor of `to` and `from`, a first-parent steps
\* below `to` and b below `from`
ForkAt(x, a, b) ==
    /\ x # None
    /\ FirstParentAncestor(parents, toCommit, a) = x
    /\ FirstParentAncestor(parents, fromCommit, b) = x
    /\ \A n \in 0..(a - 1) :
           FirstParentAncestor(parents, toCommit, n) \notin Reach(parents, fromCommit)

\* C15: in a history where each commit has at most one parent and `to` lies a
\* commits, `from` b commits above their nearest common ancestor X (a, b >= 0),
\* countCommit(to, from) returns a (and, the arguments exchanged, b): the
\* boundary found is X, whichever walker found it, and the value returned is the
\* position of X in the emission order of the `to` walker, however many commits
\* below X that walker has emitted.
C15_ForkCountsStepsToAncestor ==
    (Returned /\ LinearFrom(parents, toCommit) /\ LinearFrom(parents, fromCommit)) =>
        \A a \in 0..MaxCommits, b \in 0..MaxCommits, x \in Commits :
            ForkAt(x, a, b) =>
                /\ commonCommit = x
                /\ result = a
                /\ Len(toArr) >= a
                /\ \A i \in 1..Len(toArr) :
                       toArr[i] = FirstParentAncestor(parents, toCommit, i - 1)
                /\ (b < a \/ b = 0) => Len(toArr) = a
                /\ Len(toArr) > a => toArr[a + 1] = x

\* C15 witness: `to` is 1 above X, `from` 2 above; the `from` walker found X
\* after the `to` walker had emitted X and the commit below it
C15_Witness ==
    /\ Returned
    /\ LinearFrom(parents, toCommit) /\ LinearFrom(parents, fromCommit)
    /\ \E x \in Commits : ForkAt(x, 1, 2) /\ commonCommit = x
    /\ Len(toArr) = 3
    /\ result = 1

vars == <<ccVars, bbVars, cfVars, stVars, clVars>>

(***************************************************************************)
(* Specifications: one per operation under study.                          *)
(***************************************************************************)
Init == CountInit /\ BaseIdle /\ ConfIdle /\ StatIdle /\ CallIdle

Next ==
    \/ ToPull /\ UNCHANGED <<bbVars, cfVars, stVars, clVars>>
    \/ FromPull /\ UNCHANGED <<bbVars, cfVars, stVars, clVars>>
    \/ Return /\ UNCHANGED <<bbVars, cfVars, stVars, clVars>>

Spec == Init /\ [][Next]_vars

InitBase == BaseInit /\ CountIdle /\ ConfIdle /\ StatIdle /\ CallIdle

NextBase ==
    \/ BaseBranchReturns /\ UNCHANGED <<ccVars, cfVars, stVars, clVars>>
    \/ BaseBranchFails /\ UNCHANGED <<ccVars, cfVars, stVars, clVars>>

SpecBase == InitBase /\ [][NextBase]_vars

InitConf == ConfInit /\ CountIdle /\ BaseIdle /\ StatIdle /\ CallIdle

NextConf ==
    \/ LoadConfig /\ UNCHANGED <<ccVars, bbVars, stVars, clVars>>
    \/ PrintEmail /\ UNCHANGED <<ccVars, bbVars, stVars, clVars>>

SpecConf == InitConf /\ [][NextConf]_vars

InitStat == StatInit /\ CountIdle /\ BaseIdle /\ ConfIdle /\ CallIdle

NextStat ==
    \/ OpenDir /\ UNCHANGED <<ccVars, bbVars, cfVars, clVars>>
    \/ StagedVar /\ UNCHANGED <<ccVars, bbVars, cfVars, clVars>>
    \/ UnstagedVar /\ UNCHANGED <<ccVars, bbVars, cfVars, clVars>>
    \/ UntrackedVar /\ UNCHANGED <<ccVars, bbVars, cfVars, clVars>>
    \/ EmailVar /\ UNCHANGED <<ccVars, bbVars, cfVars, clVars>>
    \/ StashCountVar /\ UNCHANGED <<ccVars, bbVars, cfVars, clVars>>
    \/ LastCommitHashVar /\ UNCHANGED <<ccVars, bbVars, cfVars, clVars>>
    \/ UpstreamVar /\ UNCHANGED <<ccVars, bbVars, cfVars, clVars>>
    \/ AheadCountVar /\ UNCHANGED <<ccVars, bbVars, cfVars, clVars>>
    \/ BehindCountVar /\ UNCHANGED <<ccVars, bbVars, cfVars, clVars>>
    \/ BranchVar /\ UNCHANGED <<ccVars, bbVars, cfVars, clVars>>
    \/ LastCommitterVar /\ UNCHANGED <<ccVars, bbVars, cfVars, clVars>>
    \/ LastCommitMessageVar /\ UNCHANGED <<ccVars, bbVars, cfVars, clVars>>
    \/ WipAndPlaceholder /\ UNCHANGED <<ccVars, bbVars, cfVars, clVars>>
    \/ Remote /\ UNCHANGED <<ccVars, bbVars, cfVars, clVars>>
    \/ RemoteURLStep /\ UNCHANGED <<ccVars, bbVars, cfVars, clVars>>
    \/ BaseBranchStep /\ UNCHANGED <<ccVars, bbVars, cfVars, clVars>>
    \/ BehindCountFrom /\ UNCHANGED <<ccVars, bbVars, cfVars, clVars>>
    \/ OutputPretty /\ UNCHANGED <<ccVars, bbVars, cfVars, clVars>>
    \/ OutputStats /\ UNCHANGED <<ccVars, bbVars, cfVars, clVars>>

SpecStat == InitStat /\ [][NextStat]_vars

InitFlags == FlagsInit /\ CountIdle /\ BaseIdle /\ ConfIdle /\ CallIdle

NextFlags ==
    \/ StagedVar /\ UNCHANGED <<ccVars, bbVars, cfVars, clVars>>
    \/ UnstagedVar /\ UNCHANGED <<ccVars, bbVars, cfVars, clVars>>
    \/ UntrackedVar /\ UNCHANGED <<ccVars, bbVars, cfVars, clVars>>

SpecFlags == InitFlags /\ [][NextFlags]_vars

InitCall == CallInit /\ CountIdle /\ BaseIdle /\ ConfIdle

NextCall == GitCall /\ UNCHANGED <<ccVars, bbVars, cfVars>>

SpecCall == InitCall /\ [][NextCall]_vars

====
